---- MODULE Spec2Model ----
(***************************************************************************)
(* Model of rn2483.py: a driver that provisions an RN2483 LoRaWAN modem    *)
(* over a serial line, joins the network (OTAA) and then sends confirmed   *)
(* uplinks, watching for downlinks.                                        *)
(*                                                                         *)
(* Text is modelled as sequences of one-character strings, bytes read from *)
(* the serial line likewise (one element per byte).  The device and the    *)
(* serial library are the environment: every readline() returns either the *)
(* empty bytes (a read timeout) or one of DeviceLines.                     *)
(***************************************************************************)
EXTENDS Integers, Sequences, FiniteSets, TLC

VARIABLES
    pc,            \* position of the single thread in main / lora_setup
    io,            \* inside send(): "write" before sp.write, "read" after it
    sp,            \* the serial connection: "none", "open" or "closed"
    data,          \* send's parameter `data`
    data_to_send,  \* the bytes of the last sp.write (send, line 96)
    written,       \* bytes written by the current run of lora_setup, in order
    ret,           \* bytes returned by the last readline()
    response,      \* the last decoded, trimmed line
    data_rate,     \* lora_setup's local data_rate
    channel,       \* lora_setup's loop variable
    joining,       \* lora_setup's local joining
    joined,        \* the value lora_setup returned
    command,       \* main's uplink command
    error_counts,  \* main's error_counts
    tries,         \* main's tries
    payload,       \* main's payload
    slept,         \* milliseconds of the time.sleep done by the last step, else 0
    mainRet,       \* the value main returned (NoValue until it returns)
    exitCode,      \* the exit status of the process (NoValue while it runs)
    suffix,        \* whitespace appended to `data` for the second send of SpecSend
    spreading_factor, \* lora_setup's parameter spreading_factor
    unanswered, \* a command was written and no non-empty line read for it yet
    owed, \* device: the follow-up line of an uplink it accepted is still to be read
    stale, \* the line that ended send's last wait was such a follow-up line
    device_joined, \* device: "accepted" was emitted since the last "sys reset"
    joins,         \* history: "mac join otaa" writes of this lora_setup run
    joinOk,        \* history: some join response of this run contained "ok"
    uplinks,       \* history: uplink writes of this join session
    fails,         \* history: failed uplink attempts of this join session
    streak,        \* history: failed attempts since the last successful one
    polls,         \* history: readline calls of the current follow-up poll
    reprovisioned, \* history: the transmit loop has exited at least once
    interrupted    \* history: a KeyboardInterrupt has been delivered

vars ==
    <<pc, io, sp, data, data_to_send, written, ret, response, data_rate, channel,
      joining, joined, command, error_counts, tries, payload, slept, mainRet,
      exitCode, suffix, spreading_factor, owed, stale, unanswered, device_joined, joins, joinOk, uplinks, fails, streak, polls,
      reprovisioned, interrupted>>

(***************************************************************************)
(* Bounds of the model.                                                    *)
(***************************************************************************)
\* join attempts the model follows in one run of lora_setup
MaxJoins == 2
\* uplink attempts the model follows in one join session
MaxUplinks == 7
\* longest command text drawn in SpecSend
MaxDataLen == 3
\* longest whitespace suffix drawn in SpecSend
MaxSuffixLen == 2

(***************************************************************************)
(* Configuration (module level constants of rn2483.py).                    *)
(***************************************************************************)
\* "0123456789ABCDEF0123456789ABCDEF"
APPKEY ==
    <<"0", "1", "2", "3", "4", "5", "6", "7", "8", "9", "A", "B", "C", "D", "E", "F", "0", "1", "2", "3", "4", "5", "6", "7", "8", "9", "A", "B", "C", "D", "E", "F">>
\* "DEAD25DEAD25DEAD"
JOINEUI ==
    <<"D", "E", "A", "D", "2", "5", "D", "E", "A", "D", "2", "5", "D", "E", "A", "D">>
\* "DEADDEAD00090002"
DEVEUI ==
    <<"D", "E", "A", "D", "D", "E", "A", "D", "0", "0", "0", "9", "0", "0", "0", "2">>
\* f"Hello from {DEVEUI}"
MESSAGE ==
    <<"H", "e", "l", "l", "o", " ", "f", "r", "o", "m", " ">> \o DEVEUI
SPREADING_FACTOR == 7

(***************************************************************************)
(* Text primitives of Python used by the program.                          *)
(***************************************************************************)
\* what str.rstrip() and bytes.strip() remove (the ASCII whitespace the model has)
Whitespace == {" ", "\t", "\n", "\r", "\f"}
\* the terminator send appends: "\x0d\x0a"
CRLF == <<"\r", "\n">>
\* a byte that is not valid UTF-8
BadByte == "0xFF"

\* s.rstrip()
RECURSIVE rstrip(_)
rstrip(s) ==
    IF s # <<>> /\ s[Len(s)] \in Whitespace THEN rstrip(SubSeq(s, 1, Len(s) - 1)) ELSE s

\* s.lstrip()
RECURSIVE lstrip(_)
lstrip(s) ==
    IF s # <<>> /\ s[1] \in Whitespace THEN lstrip(Tail(s)) ELSE s

\* s.strip()
strip(s) == lstrip(rstrip(s))

\* sub in s
Contains(sub, s) ==
    \E i \in 1..(Len(s) - Len(sub) + 1) : SubSeq(s, i, i + Len(sub) - 1) = sub

\* bytes.decode() raises UnicodeDecodeError unless every byte is valid
Decodable(bytes) == \A i \in 1..Len(bytes) : bytes[i] # BadByte

\* s.split(sep) for a one character separator: the fields between separators
RECURSIVE split(_, _)
split(s, sep) ==
    IF \A i \in 1..Len(s) : s[i] # sep
    THEN <<s>>
    ELSE LET k == CHOOSE i \in 1..Len(s) : s[i] = sep /\ \A j \in 1..(i - 1) : s[j] # sep
         IN  <<SubSeq(s, 1, k - 1)>> \o split(SubSeq(s, k + 1, Len(s)), sep)

\* str(n) for a natural number
Digits == <<"0", "1", "2", "3", "4", "5", "6", "7", "8", "9">>
RECURSIVE str(_)
str(n) == IF n < 10 THEN <<Digits[n + 1]>> ELSE str(n \div 10) \o <<Digits[(n % 10) + 1]>>

\* ord(c) for the characters of MESSAGE
Ord(c) ==
    CASE c = " " -> 32 [] c = "0" -> 48 [] c = "2" -> 50 [] c = "9" -> 57
      [] c = "A" -> 65 [] c = "D" -> 68 [] c = "E" -> 69 [] c = "H" -> 72
      [] c = "e" -> 101 [] c = "f" -> 102 [] c = "l" -> 108 [] c = "m" -> 109
      [] c = "o" -> 111 [] c = "r" -> 114

\* s.encode("utf-8").hex() for ASCII text: two lower-case hex digits per byte
HexDigits == <<"0", "1", "2", "3", "4", "5", "6", "7", "8", "9", "a", "b", "c", "d", "e", "f">>
RECURSIVE hex(_)
hex(s) ==
    IF s = <<>> THEN <<>>
    ELSE <<HexDigits[(Ord(s[1]) \div 16) + 1], HexDigits[(Ord(s[1]) % 16) + 1]>> \o hex(Tail(s))

(***************************************************************************)
(* Command texts (rn2483.py lines 145-190 and 229).                        *)
(***************************************************************************)
\* "sys reset"
SysReset ==
    <<"s", "y", "s", " ", "r", "e", "s", "e", "t">>
\* "mac set appkey "
MacSetAppkey ==
    <<"m", "a", "c", " ", "s", "e", "t", " ", "a", "p", "p", "k", "e", "y", " ">>
\* "mac set appeui "
MacSetAppeui ==
    <<"m", "a", "c", " ", "s", "e", "t", " ", "a", "p", "p", "e", "u", "i", " ">>
\* "mac set deveui "
MacSetDeveui ==
    <<"m", "a", "c", " ", "s", "e", "t", " ", "d", "e", "v", "e", "u", "i", " ">>
\* "mac set dr "
MacSetDr ==
    <<"m", "a", "c", " ", "s", "e", "t", " ", "d", "r", " ">>
\* "mac set ch dcycle "
MacSetChDcycle ==
    <<"m", "a", "c", " ", "s", "e", "t", " ", "c", "h", " ", "d", "c", "y", "c", "l", "e", " ">>
\* "mac set ch status "
MacSetChStatus ==
    <<"m", "a", "c", " ", "s", "e", "t", " ", "c", "h", " ", "s", "t", "a", "t", "u", "s", " ">>
\* "mac save"
MacSave ==
    <<"m", "a", "c", " ", "s", "a", "v", "e">>
\* "mac join otaa"
MacJoinOtaa ==
    <<"m", "a", "c", " ", "j", "o", "i", "n", " ", "o", "t", "a", "a">>
\* "mac tx cnf 220 "
MacTxCnf ==
    <<"m", "a", "c", " ", "t", "x", " ", "c", "n", "f", " ", "2", "2", "0", " ">>
\* the markers the responses are classified by
Ok == <<"o", "k">>
Accepted == <<"a", "c", "c", "e", "p", "t", "e", "d">>
MacRx == <<"m", "a", "c", "_", "r", "x">>

\* main, lines 226-229: f"mac tx cnf 220 {MESSAGE.encode('utf-8').hex()}"
UplinkCommand == MacTxCnf \o hex(MESSAGE)

\* line 137 computed as an offset from the lowest spreading factor
DataRateFromSeven(sf) == sf - 7
\* lora_setup, line 137: abs(spreading_factor-12)
DataRate(sf) == IF sf - 12 < 0 THEN 12 - sf ELSE sf - 12

(***************************************************************************)
(* The lines the device is taken to emit, as readline() returns them.      *)
(***************************************************************************)
\* "ok\r\n"
LineOk == <<"o", "k", "\r", "\n">>
\* "invalid_param\r\n"
LineInvalidParam ==
    <<"i", "n", "v", "a", "l", "i", "d", "_", "p", "a", "r", "a", "m", "\r", "\n">>
\* "accepted\r\n"
LineAccepted == <<"a", "c", "c", "e", "p", "t", "e", "d", "\r", "\n">>
\* "join accepted\r\n"
LineJoinAccepted ==
    <<"j", "o", "i", "n", " ", "a", "c", "c", "e", "p", "t", "e", "d", "\r", "\n">>
\* "mac_tx_ok\r\n"
LineMacTxOk == <<"m", "a", "c", "_", "t", "x", "_", "o", "k", "\r", "\n">>
\* "mac_rx 1 a1b2c3\r\n"
LineMacRx ==
    <<"m", "a", "c", "_", "r", "x", " ", "1", " ", "a", "1", "b", "2", "c", "3", "\r", "\n">>
\* "mac_rx 1\ta1b2c3\r\n"
LineMacRxTab ==
    <<"m", "a", "c", "_", "r", "x", " ", "1", "\t", "a", "1", "b", "2", "c", "3", "\r", "\n">>
\* "\r\n"
LineBlank == <<"\r", "\n">>
\* a line holding a byte that is not UTF-8
LineUndecodable == <<BadByte, "\r", "\n">>

DeviceLines ==
    {LineOk, LineInvalidParam, LineAccepted, LineJoinAccepted, LineMacTxOk,
     LineMacRx, LineMacRxTab, LineBlank, LineUndecodable}

\* readline(): a line, or the empty bytes when the read times out
ReadlineResults == DeviceLines \cup {<<>>}

(***************************************************************************)
(* send (lines 86-108).                                                    *)
(***************************************************************************)
\* line 96 without rstrip
DataToSendNoRstrip(d) == d \o CRLF
\* line 96: (data.rstrip()+"\x0d\x0a").encode()
DataToSend(d) == rstrip(d) \o CRLF

\* the wait of send ended by any read, an empty one included
WaitOverAlways(rdata) == TRUE
\* lines 102-103: send's wait loop ends on the first non-empty read
WaitOver(rdata) == rdata # <<>>

\* line 106: rdata.strip().decode()
DecodedResponse(rdata) == strip(rdata)

(***************************************************************************)
(* lora_setup (lines 110-205): the send call sites, in program order.      *)
(***************************************************************************)
ProvisioningSites ==
    {"reset", "appkey", "appeui", "deveui", "dr", "dcycle", "status", "save"}
SendSites == ProvisioningSites \cup {"join", "tx"}

\* line 173: range(0,3)
ChannelRange == 0..2

\* the text passed to send at each call site
CommandAt(site, ch, dr, cmd) ==
    CASE site = "reset"  -> SysReset
      [] site = "appkey" -> MacSetAppkey \o APPKEY
      [] site = "appeui" -> MacSetAppeui \o JOINEUI
      [] site = "deveui" -> MacSetDeveui \o DEVEUI
      [] site = "dr"     -> MacSetDr \o str(dr)
      [] site = "dcycle" -> MacSetChDcycle \o str(ch) \o <<" ", "1">>
      [] site = "status" -> MacSetChStatus \o str(ch) \o <<" ", "o", "n">>
      [] site = "save"   -> MacSave
      [] site = "join"   -> MacJoinOtaa
      [] site = "tx"     -> cmd

\* lora_setup entered at the join, without reset and provisioning
FirstSiteJoin == "join"
\* line 145: the first send of lora_setup
FirstSite == "reset"

\* the call site reached after the response at `site`: "mac save" left out
NextSiteNoSave(site, ch) ==
    CASE site = "reset"  -> "appkey"
      [] site = "appkey" -> "appeui"
      [] site = "appeui" -> "deveui"
      [] site = "deveui" -> "dr"
      [] site = "dr"     -> "dcycle"
      [] site = "dcycle" -> "status"
      [] site = "status" -> IF ch + 1 \in ChannelRange THEN "dcycle" ELSE "join"
      [] site = "save"   -> "join"
\* the call site reached after the response at `site` (lines 145-190)
NextSite(site, ch) ==
    CASE site = "reset"  -> "appkey"
      [] site = "appkey" -> "appeui"
      [] site = "appeui" -> "deveui"
      [] site = "deveui" -> "dr"
      [] site = "dr"     -> "dcycle"
      [] site = "dcycle" -> "status"
      [] site = "status" -> IF ch + 1 \in ChannelRange THEN "dcycle" ELSE "save"
      [] site = "save"   -> "join"

\* the loop variable after the response at `site`
NextChannel(site, ch) ==
    CASE site = "dr" -> 0
      [] site = "status" -> IF ch + 1 \in ChannelRange THEN ch + 1 ELSE ch
      [] OTHER -> ch

\* line 192 with the test dropped
JoinAffirmativeAlways(resp) == TRUE
\* line 192: "ok" in response
JoinAffirmative(resp) == Contains(Ok, resp)

\* line 203 with a substring test
SetupResultSubstring(resp) == Contains(Accepted, resp)
\* lines 203-205: the value lora_setup returns
SetupResult(resp) == resp = Accepted

(***************************************************************************)
(* main (lines 214-280).                                                   *)
(***************************************************************************)
\* line 242 left out
SessionErrorCountKept(ec) == ec
\* line 242: error_counts = 0
SessionErrorCount(ec) == 0

\* line 243 with the limit off by one
LoopConditionEarly(ec) == ec <= 4
\* the loop left one failure later
LoopConditionLate(ec) == ec <= 6
\* line 243: while error_counts <= 5
LoopCondition(ec) == ec <= 5

\* a successful iteration starting the count of errors again
ErrorCountAfterSuccessReset(ec) == 0
\* lines 269-276: a successful iteration assigns nothing to error_counts
ErrorCountAfterSuccess(ec) == ec

\* every response of the uplink command taken as affirmative
UplinkAffirmativeAlways(resp) == TRUE
\* line 250: "ok" in send(sp,command)
UplinkAffirmative(resp) == Contains(Ok, resp)

\* line 261 without the bound on tries
PollConditionUnbounded(r, t) == r = <<>>
\* line 261: while not ret and tries <5
PollCondition(r, t) == r = <<>> /\ t < 5

\* line 271: "mac_rx" in decoded_response
IsDownlink(resp) == Contains(MacRx, resp)

\* line 275: decoded_response.split(" ")[-1]
Payload(resp) == LET fields == split(resp, " ") IN fields[Len(fields)]

\* the positions inside the try block of main (lines 232-276)
TryPcs ==
    SendSites \cup {"main_235", "join_194", "accept_197", "accept_198", "setup_ret",
                    "backoff", "tx_loop", "outer", "tx_wait", "poll_260", "poll_261",
                    "downlink"}

NoValue == 0 - 1

(***************************************************************************)
(* State after process start, before main runs.                            *)
(***************************************************************************)
Init ==
    /\ pc = "main_220"
    /\ io = "write"
    /\ sp = "none"
    /\ data = <<>>
    /\ data_to_send = <<>>
    /\ written = <<>>
    /\ ret = <<>>
    /\ response = <<>>
    /\ data_rate = 0
    /\ channel = 0
    /\ joining = FALSE
    /\ joined = FALSE
    /\ command = <<>>
    /\ error_counts = 0
    /\ tries = 0
    /\ payload = <<>>
    /\ slept = 0
    /\ mainRet = NoValue
    /\ exitCode = NoValue
    /\ suffix = <<>>
    /\ spreading_factor = SPREADING_FACTOR
    /\ device_joined = FALSE
    /\ owed = FALSE
    /\ stale = FALSE
    /\ unanswered = FALSE
    /\ joins = 0
    /\ joinOk = FALSE
    /\ uplinks = 0
    /\ fails = 0
    /\ streak = 0
    /\ polls = 0
    /\ reprovisioned = FALSE
    /\ interrupted = FALSE

sendVars == <<data, data_to_send, written>>
readVars == <<ret, response>>
setupVars == <<data_rate, channel, joining, joined>>
txVars == <<error_counts, tries, payload>>
procVars == <<sp, command, mainRet, exitCode>>
setupHist == <<joins, joinOk>>
txHist == <<uplinks, fails, streak, polls, reprovisioned>>

\* An exception unwinds the frames of send and lora_setup, and the handler of
\* main reads nothing but sp: the model drops every other local, and the
\* history of the run that ended, at that point.
FramesDropped ==
    /\ io' = "write"
    /\ data' = <<>>
    /\ data_to_send' = <<>>
    /\ written' = <<>>
    /\ ret' = <<>>
    /\ response' = <<>>
    /\ data_rate' = 0
    /\ channel' = 0
    /\ joining' = FALSE
    /\ joined' = FALSE
    /\ command' = <<>>
    /\ error_counts' = 0
    /\ tries' = 0
    /\ payload' = <<>>
    /\ slept' = 0
    /\ joins' = 0
    /\ joinOk' = FALSE
    /\ uplinks' = 0
    /\ fails' = 0
    /\ streak' = 0
    /\ polls' = 0
    /\ reprovisioned' = FALSE

(***************************************************************************)
(* main, lines 219-229: opening the serial connection.                     *)
(***************************************************************************)
\* setup_serial returns an open connection (lines 73-81)
SetupSerialOpens ==
    /\ pc = "main_220"
    /\ sp' = "open"
    /\ pc' = "main_226"
    /\ slept' = 0
    /\ UNCHANGED <<io, command, mainRet, exitCode, suffix, spreading_factor, owed, stale, unanswered, device_joined, interrupted>>
    /\ UNCHANGED <<sendVars, readVars, setupVars, txVars, setupHist, txHist>>

\* setup_serial raises ValueError or SerialException (lines 82-84); main
\* catches it and returns 1 (lines 221-223)
SetupSerialRaises ==
    /\ pc = "main_220"
    /\ mainRet' = 1
    /\ pc' = "returned"
    /\ slept' = 0
    /\ UNCHANGED <<io, sp, command, exitCode, suffix, spreading_factor, owed, stale, unanswered, device_joined, interrupted>>
    /\ UNCHANGED <<sendVars, readVars, setupVars, txVars, setupHist, txHist>>

\* lines 226-229, then the try block and the outer loop are entered
MainPrepare ==
    /\ pc = "main_226"
    /\ command' = UplinkCommand
    /\ pc' = "main_235"
    /\ slept' = 0
    /\ UNCHANGED <<io, sp, mainRet, exitCode, suffix, spreading_factor, owed, stale, unanswered, device_joined, interrupted>>
    /\ UNCHANGED <<sendVars, readVars, setupVars, txVars, setupHist, txHist>>

(***************************************************************************)
(* send: the write half (lines 96-98) and the empty reads of its wait loop *)
(* (lines 101-103), common to every call site.                             *)
(***************************************************************************)
SendWrite ==
    /\ pc \in SendSites
    /\ io = "write"
    /\ pc = "join" => joins < MaxJoins
    /\ pc = "tx" => uplinks < MaxUplinks
    /\ data' = CommandAt(pc, channel, data_rate, command)
    /\ data_to_send' = DataToSend(data')
    /\ written' = IF pc = "tx" THEN written ELSE Append(written, data_to_send')
    /\ joins' = IF pc = "join" THEN joins + 1 ELSE joins
    /\ uplinks' = IF pc = "tx" THEN uplinks + 1 ELSE uplinks
    /\ device_joined' = IF pc = "reset" THEN FALSE ELSE device_joined
    /\ unanswered' = TRUE
    /\ owed' = IF pc = "reset" THEN FALSE ELSE owed
    /\ stale' = FALSE
    /\ io' = "read"
    /\ slept' = 200
    /\ UNCHANGED <<pc, suffix, spreading_factor, joinOk, fails, streak, polls, reprovisioned, interrupted>>
    /\ UNCHANGED <<readVars, setupVars, txVars, procVars>>

\* readline returns nothing: the loop of lines 102-103 reads again
SendReadEmpty ==
    /\ pc \in SendSites
    /\ io = "read"
    /\ ~WaitOver(<<>>)
    /\ slept' = 0
    /\ UNCHANGED <<pc, io, suffix, spreading_factor, owed, stale, unanswered, device_joined, interrupted>>
    /\ UNCHANGED <<sendVars, readVars, setupVars, txVars, procVars, setupHist, txHist>>

\* sp.write or sp.readline raises SerialException, or decode raises
\* UnicodeDecodeError on the line read: nothing catches it, the process ends
\* with a traceback and status 1, the connection is not closed
UncaughtError ==
    /\ \/ pc \in SendSites
       \/ pc \in {"accept_198", "poll_260"}
       \/ pc = "poll_261" /\ PollCondition(ret, tries)
       \/ pc = "poll_261" /\ ret # <<>> /\ ~Decodable(ret)
    /\ pc' = "exited"
    /\ exitCode' = 1
    /\ FramesDropped
    /\ UNCHANGED <<sp, mainRet, suffix, spreading_factor, owed, stale, unanswered, device_joined, interrupted>>

(***************************************************************************)
(* lora_setup (lines 110-205).                                             *)
(***************************************************************************)
\* main line 235 calls lora_setup; line 137
LoraSetupEnter ==
    /\ pc = "main_235"
    /\ data_rate' = DataRate(spreading_factor)
    /\ written' = <<>>
    /\ joins' = 0
    /\ joinOk' = FALSE
    /\ pc' = FirstSite
    /\ io' = "write"
    /\ slept' = 0
    /\ UNCHANGED <<data, data_to_send, channel, joining, joined, suffix, spreading_factor, owed, stale, unanswered, device_joined, interrupted>>
    /\ UNCHANGED <<readVars, txVars, procVars, txHist>>

\* send returns the response of a provisioning command (lines 145-185); the
\* response is logged and the next command follows whatever it says
ProvisioningResponse ==
    /\ pc \in ProvisioningSites
    /\ io = "read"
    /\ \E rdata \in ReadlineResults :
          /\ WaitOver(rdata)
          /\ Decodable(rdata)
          /\ response' = DecodedResponse(rdata)
          /\ unanswered' = (unanswered /\ rdata = <<>>)
    /\ pc' = NextSite(pc, channel)
    /\ channel' = NextChannel(pc, channel)
    /\ io' = "write"
    /\ slept' = 0
    /\ UNCHANGED <<ret, data_rate, joining, joined, suffix, spreading_factor, owed, stale, device_joined, interrupted>>
    /\ UNCHANGED <<sendVars, txVars, procVars, setupHist, txHist>>

\* send returns the response of "mac join otaa" (lines 190-193)
JoinResponse ==
    /\ pc = "join"
    /\ io = "read"
    /\ \E rdata \in ReadlineResults :
          /\ WaitOver(rdata)
          /\ Decodable(rdata)
          /\ response' = DecodedResponse(rdata)
          /\ unanswered' = (unanswered /\ rdata = <<>>)
    /\ joining' = JoinAffirmative(response')
    /\ joinOk' = (joinOk \/ Contains(Ok, response'))
    /\ pc' = "join_194"
    /\ io' = "write"
    /\ slept' = 0
    /\ UNCHANGED <<ret, data_rate, channel, joined, joins, suffix, spreading_factor, owed, stale, device_joined, interrupted>>
    /\ UNCHANGED <<sendVars, txVars, procVars, txHist>>

\* line 194, then the test of the while at line 188
JoinPause ==
    /\ pc = "join_194"
    /\ slept' = 2000
    /\ pc' = IF joining THEN "accept_197" ELSE "join"
    /\ UNCHANGED <<io, suffix, spreading_factor, owed, stale, unanswered, device_joined, interrupted>>
    /\ UNCHANGED <<sendVars, readVars, setupVars, txVars, procVars, setupHist, txHist>>

\* line 197
AcceptWait ==
    /\ pc = "accept_197"
    /\ slept' = 2000
    /\ pc' = "accept_198"
    /\ UNCHANGED <<io, suffix, spreading_factor, owed, stale, unanswered, device_joined, interrupted>>
    /\ UNCHANGED <<sendVars, readVars, setupVars, txVars, procVars, setupHist, txHist>>

\* lines 198-200: readline returns nothing, the loop reads again
AcceptReadEmpty ==
    /\ pc = "accept_198"
    /\ ret' = <<>>
    /\ slept' = 0
    /\ UNCHANGED <<pc, io, response, suffix, spreading_factor, owed, stale, unanswered, device_joined, interrupted>>
    /\ UNCHANGED <<sendVars, setupVars, txVars, procVars, setupHist, txHist>>

\* lines 198-205: the first non-empty line decides what lora_setup returns
AcceptLine ==
    /\ pc = "accept_198"
    /\ \E line \in DeviceLines :
          /\ Decodable(line)
          /\ ret' = line
          /\ response' = DecodedResponse(line)
    /\ joined' = SetupResult(response')
    /\ device_joined' = (strip(ret') = Accepted)
    /\ pc' = "setup_ret"
    /\ slept' = 0
    /\ UNCHANGED <<io, data_rate, channel, joining, suffix, spreading_factor, owed, stale, unanswered, interrupted>>
    /\ UNCHANGED <<sendVars, txVars, procVars, setupHist, txHist>>

(***************************************************************************)
(* main: the loops of lines 233-276.                                       *)
(***************************************************************************)
\* line 235: lora_setup returned False; lines 236-237 follow
SetupFailed ==
    /\ pc = "setup_ret"
    /\ ~joined
    /\ pc' = "backoff"
    /\ ret' = <<>>
    /\ response' = <<>>
    /\ slept' = 0
    /\ UNCHANGED <<io, suffix, spreading_factor, owed, stale, unanswered, device_joined, interrupted>>
    /\ UNCHANGED <<sendVars, setupVars, txVars, procVars, setupHist, txHist>>

\* line 237, then lora_setup is called again
Backoff ==
    /\ pc = "backoff"
    /\ slept' = 3000
    /\ pc' = "main_235"
    /\ UNCHANGED <<io, suffix, spreading_factor, owed, stale, unanswered, device_joined, interrupted>>
    /\ UNCHANGED <<sendVars, readVars, setupVars, txVars, procVars, setupHist, txHist>>

\* line 235: lora_setup returned True; lines 238-242 start a join session
SetupJoined ==
    /\ pc = "setup_ret"
    /\ joined
    /\ error_counts' = SessionErrorCount(error_counts)
    /\ uplinks' = 0
    /\ fails' = 0
    /\ streak' = 0
    /\ polls' = 0
    /\ pc' = "tx_loop"
    /\ ret' = <<>>
    /\ response' = <<>>
    /\ slept' = 0
    /\ UNCHANGED <<io, tries, payload, suffix, spreading_factor, owed, stale, unanswered, device_joined, reprovisioned, interrupted>>
    /\ UNCHANGED <<sendVars, setupVars, procVars, setupHist>>

\* The values an iteration of the transmit loop leaves behind (send's result,
\* ret, tries) are not read again before they are assigned: the model drops
\* them when the next test of the while is made.
IterationLocalsDropped ==
    /\ ret' = <<>>
    /\ response' = <<>>
    /\ tries' = 0
    /\ polls' = 0

\* line 243: the condition holds, the body is entered
LoopContinue ==
    /\ pc = "tx_loop"
    /\ LoopCondition(error_counts)
    /\ pc' = "tx_wait"
    /\ IterationLocalsDropped
    /\ slept' = 0
    /\ UNCHANGED <<io, error_counts, payload, suffix, spreading_factor, owed, stale, unanswered, device_joined, interrupted>>
    /\ UNCHANGED <<uplinks, fails, streak, reprovisioned>>
    /\ UNCHANGED <<sendVars, setupVars, procVars, setupHist>>

\* line 243: the condition fails, control is back at the outer while (line 233)
LoopExit ==
    /\ pc = "tx_loop"
    /\ ~LoopCondition(error_counts)
    /\ pc' = "outer"
    /\ reprovisioned' = TRUE
    /\ IterationLocalsDropped
    /\ slept' = 0
    /\ UNCHANGED <<io, error_counts, payload, suffix, spreading_factor, owed, stale, unanswered, device_joined, uplinks, fails, streak, interrupted>>
    /\ UNCHANGED <<sendVars, setupVars, procVars, setupHist>>

\* line 233: the next iteration of the outer loop
OuterLoop ==
    /\ pc = "outer"
    /\ pc' = "main_235"
    /\ slept' = 0
    /\ UNCHANGED <<io, suffix, spreading_factor, owed, stale, unanswered, device_joined, interrupted>>
    /\ UNCHANGED <<sendVars, readVars, setupVars, txVars, procVars, setupHist, txHist>>

\* line 247
TxWait ==
    /\ pc = "tx_wait"
    /\ slept' = 10000
    /\ pc' = "tx"
    /\ io' = "write"
    /\ UNCHANGED <<suffix, spreading_factor, owed, stale, unanswered, device_joined, interrupted>>
    /\ UNCHANGED <<sendVars, readVars, setupVars, txVars, procVars, setupHist, txHist>>

\* line 250: send returns the response of the uplink command; lines 251-253
\* when it lacks "ok", else line 259
TxResponse ==
    /\ pc = "tx"
    /\ io = "read"
    /\ \E rdata \in ReadlineResults :
          /\ WaitOver(rdata)
          /\ Decodable(rdata)
          /\ response' = DecodedResponse(rdata)
          /\ unanswered' = (unanswered /\ rdata = <<>>)
          /\ \/ /\ stale' = FALSE
                /\ owed' = (owed \/ strip(rdata) = Ok)
             \/ /\ owed
                /\ rdata \in {LineMacTxOk, LineMacRx}
                /\ stale' = TRUE
                /\ owed' = FALSE
    /\ IF UplinkAffirmative(response')
       THEN /\ tries' = 0
            /\ pc' = "poll_260"
            /\ UNCHANGED <<error_counts, fails, streak>>
       ELSE /\ error_counts' = error_counts + 1
            /\ fails' = fails + 1
            /\ streak' = streak + 1
            /\ pc' = "tx_loop"
            /\ UNCHANGED tries
    /\ polls' = 0
    /\ io' = "write"
    /\ slept' = 0
    /\ UNCHANGED <<ret, payload, suffix, spreading_factor, device_joined, uplinks, reprovisioned, interrupted>>
    /\ UNCHANGED <<sendVars, setupVars, procVars, setupHist>>

\* line 260: the first read of the follow-up line
PollFirst ==
    /\ pc = "poll_260"
    /\ \E line \in ReadlineResults : ret' = line
    /\ owed' = (owed /\ ret' = <<>>)
    /\ polls' = polls + 1
    /\ pc' = "poll_261"
    /\ slept' = 0
    /\ UNCHANGED <<io, response, suffix, spreading_factor, stale, unanswered, device_joined, uplinks, fails, streak, reprovisioned, interrupted>>
    /\ UNCHANGED <<sendVars, setupVars, txVars, procVars, setupHist>>

\* lines 261-264: one more round of the polling loop
PollRetry ==
    /\ pc = "poll_261"
    /\ PollCondition(ret, tries)
    /\ slept' = 1000
    /\ \E line \in ReadlineResults : ret' = line
    /\ owed' = (owed /\ ret' = <<>>)
    /\ tries' = tries + 1
    /\ polls' = polls + 1
    /\ UNCHANGED <<pc, io, response, error_counts, payload, suffix, spreading_factor, stale, unanswered, device_joined>>
    /\ UNCHANGED <<uplinks, fails, streak, reprovisioned, interrupted>>
    /\ UNCHANGED <<sendVars, setupVars, procVars, setupHist>>

\* lines 265-268: the polling loop ended with nothing read
PollNoResponse ==
    /\ pc = "poll_261"
    /\ ~PollCondition(ret, tries)
    /\ ret = <<>>
    /\ error_counts' = error_counts + 1
    /\ fails' = fails + 1
    /\ streak' = streak + 1
    /\ pc' = "tx_loop"
    /\ slept' = 0
    /\ UNCHANGED <<io, tries, payload, suffix, spreading_factor, owed, stale, unanswered, device_joined, uplinks, polls, reprovisioned, interrupted>>
    /\ UNCHANGED <<sendVars, readVars, setupVars, procVars, setupHist>>

\* lines 269-275: a follow-up line was read
PollLine ==
    /\ pc = "poll_261"
    /\ ~PollCondition(ret, tries)
    /\ ret # <<>>
    /\ Decodable(ret)
    /\ response' = DecodedResponse(ret)
    /\ streak' = 0
    /\ IF IsDownlink(response')
       THEN /\ payload' = Payload(response')
            /\ pc' = "downlink"
       ELSE /\ pc' = "tx_loop"
            /\ UNCHANGED payload
    /\ error_counts' = ErrorCountAfterSuccess(error_counts)
    /\ slept' = 0
    /\ UNCHANGED <<io, ret, tries, suffix, spreading_factor, owed, stale, unanswered, device_joined>>
    /\ UNCHANGED <<uplinks, fails, polls, reprovisioned, interrupted>>
    /\ UNCHANGED <<sendVars, setupVars, procVars, setupHist>>

\* line 276, then the next test of the while at line 243
DownlinkLogged ==
    /\ pc = "downlink"
    /\ pc' = "tx_loop"
    /\ payload' = <<>>
    /\ slept' = 0
    /\ UNCHANGED <<io, error_counts, tries, suffix, spreading_factor, owed, stale, unanswered, device_joined, interrupted>>
    /\ UNCHANGED <<sendVars, readVars, setupVars, procVars, setupHist, txHist>>

(***************************************************************************)
(* KeyboardInterrupt and the end of the process.                           *)
(***************************************************************************)
\* the interrupt is delivered inside the try block: line 277 catches it
InterruptCaught ==
    /\ pc \in TryPcs
    /\ interrupted' = TRUE
    /\ pc' = "handler"
    /\ FramesDropped
    /\ UNCHANGED <<sp, mainRet, exitCode, suffix, spreading_factor, owed, stale, unanswered, device_joined>>

\* the interrupt is delivered outside the try block (lines 220-229, or the
\* handler itself before line 279): nothing catches it, the interpreter ends
\* the process with the status of a SIGINT death
InterruptUncaught ==
    /\ pc \in {"main_220", "main_226", "handler"}
    /\ interrupted' = TRUE
    /\ pc' = "exited"
    /\ exitCode' = 130
    /\ FramesDropped
    /\ UNCHANGED <<sp, mainRet, suffix, spreading_factor, owed, stale, unanswered, device_joined>>

\* lines 278-280
HandlerClose ==
    /\ pc = "handler"
    /\ sp' = "closed"
    /\ mainRet' = 0
    /\ pc' = "returned"
    /\ slept' = 0
    /\ UNCHANGED <<io, command, exitCode, suffix, spreading_factor, owed, stale, unanswered, device_joined, interrupted>>
    /\ UNCHANGED <<sendVars, readVars, setupVars, txVars, setupHist, txHist>>

\* the status of a script that runs to its end (line 285 alone)
ScriptEndStatus(r) == 0

\* line 285: main() returns, its value is dropped, the script ends
ProcessExit ==
    /\ pc = "returned"
    /\ exitCode' = ScriptEndStatus(mainRet)
    /\ pc' = "exited"
    /\ slept' = 0
    /\ UNCHANGED <<io, sp, command, mainRet, suffix, spreading_factor, owed, stale, unanswered, device_joined, interrupted>>
    /\ UNCHANGED <<sendVars, readVars, setupVars, txVars, setupHist, txHist>>

Next ==
    \/ SetupSerialOpens
    \/ SetupSerialRaises
    \/ MainPrepare
    \/ SendWrite
    \/ SendReadEmpty
    \/ UncaughtError
    \/ LoraSetupEnter
    \/ ProvisioningResponse
    \/ JoinResponse
    \/ JoinPause
    \/ AcceptWait
    \/ AcceptReadEmpty
    \/ AcceptLine
    \/ SetupFailed
    \/ Backoff
    \/ SetupJoined
    \/ LoopContinue
    \/ LoopExit
    \/ OuterLoop
    \/ TxWait
    \/ TxResponse
    \/ PollFirst
    \/ PollRetry
    \/ PollNoResponse
    \/ PollLine
    \/ DownlinkLogged
    \/ InterruptCaught
    \/ InterruptUncaught
    \/ HandlerClose
    \/ ProcessExit

Spec == Init /\ [][Next]_vars

(***************************************************************************)
(* send as a function of its argument: the bytes written for a command and *)
(* for the same command with a whitespace suffix.                          *)
(***************************************************************************)
\* the characters command texts are drawn from
DataAlphabet == {"m", " ", "\r", "\n"}

\* the sequences over `alphabet` of length at most n
Texts(alphabet, n) == UNION {[1..k -> alphabet] : k \in 0..n}

InitSend ==
    /\ pc = "send_1"
    /\ io = "write"
    /\ sp = "open"
    /\ data \in Texts(DataAlphabet, MaxDataLen)
    /\ suffix \in Texts(Whitespace, MaxSuffixLen)
    /\ spreading_factor = SPREADING_FACTOR
    /\ device_joined = FALSE
    /\ owed = FALSE
    /\ stale = FALSE
    /\ unanswered = FALSE
    /\ data_to_send = <<>>
    /\ written = <<>>
    /\ ret = <<>>
    /\ response = <<>>
    /\ data_rate = 0
    /\ channel = 0
    /\ joining = FALSE
    /\ joined = FALSE
    /\ command = <<>>
    /\ error_counts = 0
    /\ tries = 0
    /\ payload = <<>>
    /\ slept = 0
    /\ mainRet = NoValue
    /\ exitCode = NoValue
    /\ joins = 0
    /\ joinOk = FALSE
    /\ uplinks = 0
    /\ fails = 0
    /\ streak = 0
    /\ polls = 0
    /\ reprovisioned = FALSE
    /\ interrupted = FALSE

\* send(sp, data), lines 96-98
SendData ==
    /\ pc = "send_1"
    /\ data_to_send' = DataToSend(data)
    /\ written' = Append(written, data_to_send')
    /\ slept' = 200
    /\ pc' = "send_2"
    /\ UNCHANGED <<io, data, suffix, spreading_factor, owed, stale, unanswered, device_joined, interrupted>>
    /\ UNCHANGED <<readVars, setupVars, txVars, procVars, setupHist, txHist>>

\* send(sp, data + suffix), lines 96-98
SendDataWithSuffix ==
    /\ pc = "send_2"
    /\ data_to_send' = DataToSend(data \o suffix)
    /\ written' = Append(written, data_to_send')
    /\ slept' = 200
    /\ pc' = "sent"
    /\ UNCHANGED <<io, data, suffix, spreading_factor, owed, stale, unanswered, device_joined, interrupted>>
    /\ UNCHANGED <<readVars, setupVars, txVars, procVars, setupHist, txHist>>

NextSend ==
    \/ SendData
    \/ SendDataWithSuffix

SpecSend == InitSend /\ [][NextSend]_vars

(***************************************************************************)
(* lora_setup for every spreading factor its docstring allows.             *)
(***************************************************************************)
\* lines 117-124: "7 to 12"
SpreadingFactors == 7..12

\* main has opened the connection and is about to call lora_setup
InitSetup ==
    /\ pc = "main_235"
    /\ io = "write"
    /\ sp = "open"
    /\ data = <<>>
    /\ data_to_send = <<>>
    /\ written = <<>>
    /\ ret = <<>>
    /\ response = <<>>
    /\ data_rate = 0
    /\ channel = 0
    /\ joining = FALSE
    /\ joined = FALSE
    /\ command = UplinkCommand
    /\ error_counts = 0
    /\ tries = 0
    /\ payload = <<>>
    /\ slept = 0
    /\ mainRet = NoValue
    /\ exitCode = NoValue
    /\ suffix = <<>>
    /\ spreading_factor \in SpreadingFactors
    /\ device_joined = FALSE
    /\ owed = FALSE
    /\ stale = FALSE
    /\ unanswered = FALSE
    /\ joins = 0
    /\ joinOk = FALSE
    /\ uplinks = 0
    /\ fails = 0
    /\ streak = 0
    /\ polls = 0
    /\ reprovisioned = FALSE
    /\ interrupted = FALSE

NextSetup ==
    \/ LoraSetupEnter
    \/ SendWrite
    \/ SendReadEmpty
    \/ ProvisioningResponse
    \/ JoinResponse
    \/ JoinPause
    \/ AcceptWait
    \/ AcceptReadEmpty
    \/ AcceptLine

SpecSetup == InitSetup /\ [][NextSetup]_vars

(***************************************************************************)
(* Properties.                                                             *)
(***************************************************************************)
\* t starts with the text p
StartsWith(t, p) == Len(t) >= Len(p) /\ SubSeq(t, 1, Len(p)) = p

\* the positions of the body of the transmit loop (lines 246-276)
LoopBodyPcs == {"tx_wait", "tx", "poll_260", "poll_261", "downlink"}

\* the positions an exception leads to
ExceptionPcs == {"handler", "exited"}

\* The commands lora_setup has to write before it may write "mac join otaa".
ExpectedProvisioning ==
    << SysReset, MacSetAppkey, MacSetAppeui, MacSetDeveui, MacSetDr,
       MacSetChDcycle \o <<"0">>, MacSetChStatus \o <<"0", " ", "o", "n">>,
       MacSetChDcycle \o <<"1">>, MacSetChStatus \o <<"1", " ", "o", "n">>,
       MacSetChDcycle \o <<"2">>, MacSetChStatus \o <<"2", " ", "o", "n">>,
       MacSave >>

\* C1: in every run of lora_setup the commands written before the first
\* "mac join otaa" are, in this order, "sys reset", the four set commands
\* (appkey, appeui, deveui, dr), dcycle and status for channels 0, 1 and 2,
\* and one "mac save"; no join is written before all twelve were written.
C1_ProvisioningOrder ==
    /\ \A i \in 1..Len(written) :
          IF i <= Len(ExpectedProvisioning)
          THEN /\ StartsWith(written[i], ExpectedProvisioning[i])
               /\ ~StartsWith(written[i], MacJoinOtaa)
          ELSE StartsWith(written[i], MacJoinOtaa)
    /\ pc \in {"join_194", "accept_197", "accept_198", "setup_ret"}
          => Len(written) > Len(ExpectedProvisioning)

\* C1 witness: a second run of lora_setup has written the twelve commands
\* and then its first join.
C1_Witness ==
    /\ reprovisioned
    /\ pc = "join"
    /\ io = "read"
    /\ Len(written) = 13
    /\ written[12] = MacSave \o CRLF
    /\ written[13] = MacJoinOtaa \o CRLF

\* C2: lora_setup returns True exactly when the first non-empty line read
\* after the affirmative join response equals "accepted" once trimmed; a line
\* that only contains "accepted" makes it return False.
C2_AcceptedExactly ==
    pc = "setup_ret" =>
        /\ ret # <<>>
        /\ joined <=> (strip(ret) = Accepted)
        /\ ret = LineJoinAccepted => ~joined

\* C2 witness: the line read was "join accepted" and lora_setup returned False.
C2_Witness == pc = "setup_ret" /\ ret = LineJoinAccepted /\ ~joined

\* C3: "mac join otaa" is sent again after every response without "ok", every
\* attempt is followed by a 2 s pause, the accept line is not read (and
\* lora_setup does not return) before a join response with "ok" was received;
\* nothing but such a response ends the retries.
C3_JoinRetry ==
    /\ [](pc \in {"accept_197", "accept_198", "setup_ret"} => joinOk)
    /\ [](pc = "join" /\ io = "write" /\ joins > 0 => slept = 2000 /\ ~joinOk)
    /\ [](pc = "accept_197" => slept = 2000)
    /\ [][pc = "join" /\ io = "read" /\ pc' \notin ExceptionPcs /\ pc' # pc
            => pc' = "join_194"]_vars
    /\ [][pc = "join_194" /\ pc' \notin ExceptionPcs
            => /\ slept' = 2000
               /\ pc' = IF Contains(Ok, response) THEN "accept_197" ELSE "join"
               /\ pc' = "join" => io' = "write"]_vars

\* C3 witness: the accept line is awaited after a join that had to be sent twice.
C3_Witness == pc = "accept_198" /\ joins = 2 /\ joinOk

\* C4 as claimed: whenever the transmit loop exits, the last six uplink
\* attempts of the session all failed, none of them following a success.
C4_SixConsecutive == pc = "outer" => streak >= 6

\* C4 amended: the transmit loop exits exactly when the sixth failure of the
\* join session has been counted, never earlier; the failures need not be
\* consecutive.
C4_SixFailures ==
    /\ pc = "outer" => fails = 6 /\ error_counts = 6
    /\ pc \in LoopBodyPcs => fails <= 5 /\ error_counts = fails

\* C4 witness: the loop has exited after six failures with a success in between.
C4_Witness == pc = "outer" /\ fails = 6 /\ streak < 6 /\ uplinks = 7

\* C5: error_counts is 0 when the transmit loop is entered after lora_setup
\* returned True, before the first uplink of the session, whatever earlier
\* sessions counted.
C5_SessionStartsAtZero ==
    pc \in {"tx_loop", "tx_wait", "tx"} /\ uplinks = 0 => error_counts = 0

\* C5 witness: a session after a reprovisioning is about to send its first uplink.
C5_Witness ==
    /\ reprovisioned
    /\ pc = "tx"
    /\ io = "write"
    /\ uplinks = 0
    /\ error_counts = 0

\* C6 as claimed: the follow-up line is polled for at most 5 attempts.
C6_FivePolls == polls <= 5

\* C6 amended: the follow-up line is read at most 6 times, once at once and
\* then up to 5 times, each after a 1 s pause; when every read is empty the
\* attempt counts as a failure and the loop goes on to its next iteration.
C6_BoundedPoll ==
    /\ [](polls <= 6 /\ tries <= 5)
    /\ [](pc = "poll_261" /\ polls >= 2 => slept = 1000)
    /\ [][pc = "poll_261" /\ ret = <<>> /\ pc' \notin ExceptionPcs /\ pc' # pc
            => /\ polls = 6
               /\ pc' = "tx_loop"
               /\ error_counts' = error_counts + 1]_vars

\* C6 witness: six empty reads, the attempt was counted as a failure.
C6_Witness == pc = "tx_loop" /\ polls = 6 /\ ret = <<>> /\ error_counts >= 1

\* C7: the value main returns (1 when the transport cannot be opened, 0 on
\* shutdown) is the exit status of the process.
C7_ExitStatusIsMainValue ==
    pc = "exited" /\ mainRet # NoValue => exitCode = mainRet

\* C8: once the transport was opened, no exit that follows an interrupt
\* leaves it open.
C8_ClosedAfterInterrupt == pc = "exited" /\ interrupted => sp # "open"

\* the last whitespace delimited token of t
RECURSIVE LastToken(_)
LastToken(t) ==
    IF t = <<>> \/ t[Len(t)] \in Whitespace THEN <<>>
    ELSE LastToken(SubSeq(t, 1, Len(t) - 1)) \o <<t[Len(t)]>>

\* C9: the payload extracted from a line with "mac_rx" is the last whitespace
\* delimited token of the trimmed line, whatever separates the tokens.
C9_LastWhitespaceToken ==
    pc = "downlink" => payload = LastToken(strip(response))

\* C10: send writes the command followed by exactly one CR LF whatever
\* trailing whitespace the command carries: the bytes never end in two
\* terminators, and a whitespace suffix changes nothing.
C10_OneTerminator ==
    /\ \A i \in 1..Len(written) :
          LET w == written[i]
              n == Len(w)
              arg == IF i = 1 THEN data ELSE data \o suffix
          IN  /\ n >= 2
              /\ SubSeq(w, n - 1, n) = CRLF
              /\ n >= 3 => w[n - 2] \notin Whitespace
              /\ StartsWith(arg, SubSeq(w, 1, n - 2))
              /\ \A k \in (n - 1)..Len(arg) : arg[k] \in Whitespace
    /\ pc = "sent" => written[1] = written[2]

\* C10 witness: a command that already ends in CR LF was sent, alone and
\* with two more whitespace characters after it.
C10_Witness ==
    /\ pc = "sent"
    /\ data = <<"m", "\r", "\n">>
    /\ Len(suffix) = 2

\* C11: for every spreading factor SF in 7..12 the data-rate index sent in
\* "mac set dr" is |SF-12|, a number in 0..5: 5 for SF 7, 0 for SF 12.
C11_DataRateIndex ==
    LET index == CASE spreading_factor = 7 -> 5
                   [] spreading_factor = 8 -> 4
                   [] spreading_factor = 9 -> 3
                   [] spreading_factor = 10 -> 2
                   [] spreading_factor = 11 -> 1
                   [] spreading_factor = 12 -> 0
    IN  /\ pc # "main_235" => data_rate = index /\ data_rate \in 0..5
        /\ Len(written) >= 5
              => written[5] = MacSetDr \o <<Digits[index + 1]>> \o CRLF

\* C11 witness: with SF 12 "mac set dr 0" has been written.
C11_Witness ==
    /\ spreading_factor = 12
    /\ Len(written) >= 5
    /\ written[5] = <<"m", "a", "c", " ", "s", "e", "t", " ", "d", "r", " ", "0", "\r", "\n">>

\* C12: once the transport is open no failure of a command exchange (a
\* failed write, unreadable or undecodable bytes, a negative response) ends
\* the process: it ends by the interrupt only.
C12_OnlyInterruptEnds == pc = "exited" /\ sp # "none" => interrupted

\* C13: an uplink command is written only while the device is joined: the
\* last run of lora_setup returned True on the line "accepted" and no
\* "sys reset" was written since.
C13_UplinkOnlyJoined ==
    /\ StartsWith(data_to_send, MacTxCnf) => device_joined
    /\ pc = "tx" => device_joined /\ joined

\* C13 witness: the first uplink of a session after a reprovisioning is written.
C13_Witness ==
    /\ reprovisioned
    /\ pc = "tx"
    /\ io = "read"
    /\ uplinks = 1
    /\ data_to_send = UplinkCommand \o CRLF

\* C14: after lora_setup returned False (and the 3 s pause) and after the
\* transmit loop exited, the next command written is "sys reset", followed
\* by the provisioning sequence: never a bare join or an uplink.
C14_RestartFromReset ==
    /\ [][pc = "setup_ret" /\ ~joined /\ pc' \notin ExceptionPcs => pc' = "backoff"]_vars
    /\ [][pc = "backoff" /\ pc' \notin ExceptionPcs
            => pc' = "main_235" /\ slept' = 3000]_vars
    /\ [][pc = "tx_loop" /\ error_counts > 5 /\ pc' \notin ExceptionPcs
            => pc' = "outer"]_vars
    /\ [][pc = "outer" /\ pc' \notin ExceptionPcs => pc' = "main_235"]_vars
    /\ [][pc = "main_235" /\ pc' \notin ExceptionPcs
            => pc' = "reset" /\ io' = "write" /\ written' = <<>>]_vars
    /\ [][(pc \in {"backoff", "outer", "main_235"}) /\ pc' \notin ExceptionPcs
            => (data_to_send' = data_to_send /\ uplinks' = uplinks)]_vars
    /\ [](pc = "reset" /\ io = "read"
            => data_to_send = SysReset \o CRLF /\ written = <<data_to_send>>)
    /\ [](\A i \in 1..Len(written) :
            i <= Len(ExpectedProvisioning) => StartsWith(written[i], ExpectedProvisioning[i]))

\* C14 witness: "sys reset" is written again after the transmit loop had
\* exited and the run of lora_setup that followed had returned False.
C14_Witness ==
    /\ reprovisioned
    /\ ~joined
    /\ pc = "reset"
    /\ io = "read"
    /\ written = <<SysReset \o CRLF>>

\* C15: no two commands are in flight: a command is written only when a
\* non-empty response line was read for the command written before it, and
\* send returns only after such a line.
C15_OneInFlight ==
    /\ [][uplinks' = uplinks + 1 \/ Len(written') = Len(written) + 1
            => ~unanswered /\ unanswered']_vars
    /\ [](io = "write" /\ pc \in TryPcs => ~unanswered)
    /\ [](pc \in SendSites /\ io = "read" => unanswered)

\* C15 witness: the second command of a run is in flight, the first one
\* having been answered.
C15_Witness ==
    /\ Len(written) = 2
    /\ unanswered
    /\ pc = "appkey"
    /\ io = "read"

\* C16: an uplink response that lacks "ok" adds exactly 1 to error_counts
\* and ends the iteration without polling: no follow-up read happens between
\* that response and the next loop test; polling follows affirmative
\* responses only.
C16_NackNoPoll ==
    /\ [][pc = "tx" /\ io = "read" /\ pc' \in TryPcs \ {"tx"} /\ ~Contains(Ok, response')
            => /\ error_counts' = error_counts + 1
               /\ pc' = "tx_loop"
               /\ polls' = 0
               /\ ret' = ret]_vars
    /\ [][polls' > polls => pc \in {"poll_260", "poll_261"}]_vars
    /\ [](pc \in {"poll_260", "poll_261"} => Contains(Ok, response))

\* C16 witness: the first uplink of a session was answered "invalid_param".
C16_Witness ==
    /\ pc = "tx_loop"
    /\ response = <<"i","n","v","a","l","i","d","_","p","a","r","a","m">>
    /\ error_counts = 1
    /\ uplinks = 1
    /\ polls = 0

\* C17: an iteration whose follow-up line arrived leaves error_counts as it
\* was, with or without "mac_rx" in the line; inside a session error_counts
\* never decreases and changes only by +1, on a failed attempt (a response
\* without "ok", or no follow-up line).
C17_CountOnlyGrows ==
    /\ [][pc = "poll_261" /\ ret # <<>> /\ pc' \in {"tx_loop", "downlink"}
            => error_counts' = error_counts]_vars
    /\ [][pc = "downlink" /\ pc' = "tx_loop" => error_counts' = error_counts]_vars
    /\ [][(pc \in LoopBodyPcs \cup {"tx_loop"}) /\ pc' \in LoopBodyPcs \cup {"tx_loop"}
            => \/ error_counts' = error_counts
               \/ /\ error_counts' = error_counts + 1
                  /\ \/ pc = "tx" /\ ~Contains(Ok, response')
                     \/ pc = "poll_261" /\ ret = <<>> /\ tries >= 5]_vars

\* C17 witness: a failed attempt was followed by a successful one that got
\* a downlink, and the failure is still counted.
C17_Witness ==
    /\ pc = "tx_loop"
    /\ error_counts = 1
    /\ uplinks = 2
    /\ ret = LineMacRx
    /\ IsDownlink(response)

\* C18: error_counts is always in 0..6, it is 6 only at the moment the
\* transmit loop exits, and no uplink is written while it is greater than 5.
C18_SixOnlyAtExit ==
    /\ error_counts \in 0..6
    /\ error_counts = 6 => pc \in {"tx_loop", "outer"}
    /\ pc = "tx" => error_counts <= 5

\* C18 as the code has it: error_counts is always in 0..6 and never 6 inside
\* the body of the transmit loop, so no uplink is written while it is greater
\* than 5; it is 6 from the 6th failure, through the exit of the loop and
\* the whole reprovisioning that follows, until line 242 sets it to 0.
C18_SixOutsideBody ==
    /\ [](error_counts \in 0..6)
    /\ [](pc \in LoopBodyPcs => error_counts <= 5)
    /\ [][uplinks' = uplinks + 1 => error_counts <= 5 /\ error_counts' <= 5]_vars
    /\ [](error_counts = 6 /\ pc # "tx_loop" => reprovisioned)
    /\ [][error_counts = 6 /\ error_counts' # 6
            => pc' \in ExceptionPcs \/ (pc = "setup_ret" /\ joined /\ error_counts' = 0)]_vars

\* C18 witness: lora_setup runs again after the loop exited, error_counts
\* still being 6.
C18_Witness ==
    /\ error_counts = 6
    /\ pc = "reset"
    /\ io = "read"
    /\ reprovisioned

\* C19: the text send returns is never empty, whatever line the device
\* emitted (a line of only the terminator or whitespace included), and
\* neither is the accept line lora_setup decodes.
C19_ResponseNeverEmpty ==
    /\ pc \in (ProvisioningSites \ {"reset"}) \cup {"join_194"} /\ io = "write"
          => Len(response) >= 1
    /\ pc = "setup_ret" => Len(response) >= 1

\* C20: the line send returns for a command is the device's response to
\* that command: the follow-up line of an earlier uplink, arriving after the
\* polling of that uplink gave up, is never taken as the response of the
\* next command.
C20_ResponseAnswersCommand == ~stale

====
